---- MODULE Spec2Model ----
(***************************************************************************)
(* BaseConfigurationResolverService: interactive resolution of             *)
(* ${input:...} and ${command:...} variables (resolveWithInteraction and   *)
(* resolveWithInteractionReplace), the single-flight user input queue and  *)
(* the last-picked-value cache kept in workspace storage.                  *)
(***************************************************************************)
EXTENDS Integers, Sequences, FiniteSets, TLC

\* ---------------------------------------------------------------- bounds
NCalls == 3
MaxVars == 2
MaxTotalVars == 3
MaxOptions == 3

Calls == 1..NCalls

\* ------------------------------------------------------ JavaScript values
\* Strings are TLA+ strings; the three non-string values are sentinels.
Undefined == "<undefined>"
Null == "<null>"
NonString == "<object>"

Types_isString(v) == v \notin {Undefined, Null, NonString}
Types_isUndefinedOrNull(v) == v \in {Undefined, Null}
\* JavaScript truthiness of a string-or-sentinel value ('' is falsy).
Truthy(v) == v \notin {Undefined, Null, ""}

\* ------------------------------------------------------------- constants
LAST_INPUT_CACHE_SIZE == 5
VariableKind_Input == "input"
VariableKind_Command == "command"
WorkbenchState_EMPTY == "EMPTY"
WorkbenchState_FOLDER == "FOLDER"
ConfigurationTarget_USER == "USER"
ConfigurationTarget_USER_REMOTE == "USER_REMOTE"
ConfigurationTarget_WORKSPACE == "WORKSPACE"
ConfigurationTarget_WORKSPACE_FOLDER == "WORKSPACE_FOLDER"

\* ------------------------------------------------------------ LRUCache
\* An LRUCache<string,string> is a sequence of <<key, value>> pairs without
\* duplicate keys, oldest first.
RECURSIVE LruWithout(_, _)
LruWithout(lru, k) ==
    IF lru = <<>> THEN <<>>
    ELSE IF Head(lru)[1] = k THEN LruWithout(Tail(lru), k)
    ELSE <<Head(lru)>> \o LruWithout(Tail(lru), k)

RECURSIVE LruLookup(_, _)
LruLookup(lru, k) ==
    IF lru = <<>> THEN Undefined
    ELSE IF Head(lru)[1] = k THEN Head(lru)[2]
    ELSE LruLookup(Tail(lru), k)

LruHas(lru, k) == \E i \in 1..Len(lru) : lru[i][1] = k

RECURSIVE LruTrim(_, _)
LruTrim(lru, limit) ==
    IF Len(lru) > limit THEN LruTrim(Tail(lru), limit) ELSE lru

\* LRUCache.get: returns the value and makes the entry the newest one.
LruGetValue(lru, k) == LruLookup(lru, k)
LruGetCache(lru, k) ==
    IF LruHas(lru, k) THEN LruWithout(lru, k) \o <<(<<k, LruLookup(lru, k)>>)>>
    ELSE lru

\* LRUCache.set: the entry becomes the newest one, then the cache is trimmed.
LruSet(lru, k, v) ==
    LruTrim(LruWithout(lru, k) \o <<(<<k, v>>)>>, LAST_INPUT_CACHE_SIZE)

\* LRUCache.toJSON / fromJSON: the entries oldest first; fromJSON sets them
\* one by one into an empty cache.
LruToJSON(lru) == lru
RECURSIVE LruFromJSONInto(_, _)
LruFromJSONInto(lru, data) ==
    IF data = <<>> THEN lru
    ELSE LruFromJSONInto(LruSet(lru, Head(data)[1], Head(data)[2]), Tail(data))
LruFromJSON(data) == LruFromJSONInto(<<>>, data)

\* readInputLru: the stored contents parsed into a fresh cache; no contents
\* gives an empty cache.
readInputLru(contents) ==
    IF contents.defined THEN LruFromJSON(contents.json) ELSE <<>>

\* storeInputLru: the value written under LAST_INPUT_STORAGE_KEY.
storeInputLru(lru) == [defined |-> TRUE, json |-> LruToJSON(lru)]

\* ------------------------------------------------ pickString pick items
\* An option of a pickString input is a plain string (str = TRUE, value) or
\* an object {label, value}.
OptionValue(o) == o.value
OptionLabel(o) == IF o.str THEN Undefined ELSE o.label

PickItem(o, description) ==
    [label |-> IF Truthy(OptionLabel(o))
               THEN OptionLabel(o) \o ": " \o OptionValue(o)
               ELSE OptionValue(o),
     value |-> OptionValue(o),
     description |-> description]

\* One iteration of the loop that builds the pick list.
AddPick(picks, o, default, previousPickedValue) ==
    IF OptionValue(o) = default
    THEN <<PickItem(o, "(Default)")>> \o picks
    ELSE IF ~Truthy(default) /\ OptionValue(o) = previousPickedValue
    THEN <<PickItem(o, Undefined)>> \o picks
    ELSE picks \o <<PickItem(o, Undefined)>>

RECURSIVE BuildPicksFrom(_, _, _, _)
BuildPicksFrom(picks, options, default, previousPickedValue) ==
    IF options = <<>> THEN picks
    ELSE BuildPicksFrom(AddPick(picks, Head(options), default, previousPickedValue),
                        Tail(options), default, previousPickedValue)

BuildPicks(options, default, previousPickedValue) ==
    BuildPicksFrom(<<>>, options, default, previousPickedValue)

\* ------------------------------------------------- configured 'inputs'
NoOptions == <<>>
StrOption(v) == [str |-> TRUE, label |-> Undefined, value |-> v]

\* The 'inputs' section of the configuration. Two entries share the id "p":
\* the lookup takes the last one.
ConfiguredInputs ==
    << [id |-> "p", type |-> "other", description |-> "P0", default |-> Undefined,
        optionsIsArray |-> FALSE, options |-> NoOptions, command |-> Undefined],
       [id |-> "p", type |-> "promptString", description |-> "P", default |-> Undefined,
        optionsIsArray |-> FALSE, options |-> NoOptions, command |-> Undefined],
       [id |-> "q", type |-> "pickString", description |-> "Q", default |-> Undefined,
        optionsIsArray |-> TRUE, options |-> <<StrOption("a"), StrOption("b")>>,
        command |-> Undefined],
       [id |-> "c", type |-> "command", description |-> Undefined, default |-> Undefined,
        optionsIsArray |-> FALSE, options |-> NoOptions, command |-> "cmd"],
       [id |-> "x", type |-> "other", description |-> "X", default |-> Undefined,
        optionsIsArray |-> FALSE, options |-> NoOptions, command |-> Undefined],
       [id |-> "m", type |-> "promptString", description |-> Undefined, default |-> Undefined,
        optionsIsArray |-> FALSE, options |-> NoOptions, command |-> Undefined] >>

\* A value of ConfiguredInput[] | undefined.
NoInputs == [present |-> FALSE, items |-> <<>>]
SomeInputs(items) == [present |-> TRUE, items |-> items]

\* A configuration value: undefined, or an object with or without 'inputs'.
ValueUndefined == [defined |-> FALSE, inputs |-> NoInputs]
ValueWithoutInputs == [defined |-> TRUE, inputs |-> NoInputs]
ValueWithInputs == [defined |-> TRUE, inputs |-> SomeInputs(ConfiguredInputs)]
ConfigValues == {ValueUndefined, ValueWithoutInputs, ValueWithInputs}

\* value?.inputs
InputsOf(value) == IF value.defined THEN value.inputs ELSE NoInputs

\* Variant: the workbench state is not looked at.
resolveInputsIgnoringWorkbenchState(wbState, section, inspected, merged, target) ==
    IF ~Truthy(section)
    THEN NoInputs
    ELSE IF inspected.userValue.defined \/ inspected.workspaceValue.defined
            \/ inspected.workspaceFolderValue.defined \/ inspected.userRemoteValue.defined
    THEN CASE target = ConfigurationTarget_USER -> InputsOf(inspected.userValue)
           [] target = ConfigurationTarget_USER_REMOTE -> InputsOf(inspected.userRemoteValue)
           [] target = ConfigurationTarget_WORKSPACE -> InputsOf(inspected.workspaceValue)
           [] OTHER -> InputsOf(inspected.workspaceFolderValue)
    ELSE IF merged.defined THEN merged.inputs ELSE NoInputs

\* resolveInputs(folder, section, target), given the workbench state, the
\* result of configurationService.inspect(section) and of getValue(section).
resolveInputs(wbState, section, inspected, merged, target) ==
    IF wbState = WorkbenchState_EMPTY \/ ~Truthy(section)
    THEN NoInputs
    ELSE IF inspected.userValue.defined \/ inspected.workspaceValue.defined
            \/ inspected.workspaceFolderValue.defined \/ inspected.userRemoteValue.defined
    THEN CASE target = ConfigurationTarget_USER -> InputsOf(inspected.userValue)
           [] target = ConfigurationTarget_USER_REMOTE -> InputsOf(inspected.userRemoteValue)
           [] target = ConfigurationTarget_WORKSPACE -> InputsOf(inspected.workspaceValue)
           [] OTHER -> InputsOf(inspected.workspaceFolderValue)
    ELSE IF merged.defined THEN merged.inputs ELSE NoInputs

\* Variant: pop() on the unfiltered list when nothing matches.
InfoIndexOrLast(items, variable) ==
    LET matches == {i \in 1..Len(items) : items[i].id = variable}
    IN IF matches = {} THEN Len(items) ELSE CHOOSE i \in matches : \A j \in matches : j <= i

\* inputInfos.filter(item => item.id === variable).pop(): the index of the
\* last entry with that id, 0 when there is none.
InfoIndex(items, variable) ==
    LET matches == {i \in 1..Len(items) : items[i].id = variable}
    IN IF matches = {} THEN 0 ELSE CHOOSE i \in matches : \A j \in matches : j <= i

\* Variant: the switch on info.type has no default case.
InputTypeHandledAlways(type) == TRUE

\* switch (info.type): the types that have a case; any other type reaches
\* the default case.
InputTypeHandled(type) == type \in {"promptString", "pickString", "command"}

\* The attribute of a configured input that showUserInput finds missing
\* (missingAttribute), "" when the input is well formed for its type.
MissingAttribute(info) ==
    CASE info.type = "promptString" ->
            IF ~Types_isString(info.description) THEN "description" ELSE ""
      [] info.type = "pickString" ->
            IF ~Types_isString(info.description) THEN "description"
            ELSE IF ~info.optionsIsArray THEN "options"
            ELSE IF \E i \in 1..Len(info.options) :
                        ~Types_isString(info.options[i].value) THEN "value"
            ELSE ""
      [] info.type = "command" ->
            IF ~Types_isString(info.command) THEN "command" ELSE ""
      [] OTHER -> ""

\* `${section}.${variable}`
DefaultValueKey(section, variable) == section \o "." \o variable

\* inputOptions.value of a promptString prompt.
InputOptionsValue(info, previousPickedValue) ==
    IF Truthy(info.default) THEN info.default ELSE previousPickedValue

\* ------------------------------------------------------- command variable
\* Variant: ?? in place of ||, an empty mapping is taken as the command id.
CommandIdNullish(variableToCommandMap, arg) ==
    LET mapped == IF variableToCommandMap.defined
                  THEN variableToCommandMap.entries[arg] ELSE Undefined
    IN IF ~Types_isUndefinedOrNull(mapped) THEN mapped ELSE arg

\* (variableToCommandMap ? variableToCommandMap[arg] : undefined) || arg
CommandId(variableToCommandMap, arg) ==
    LET mapped == IF variableToCommandMap.defined
                  THEN variableToCommandMap.entries[arg] ELSE Undefined
    IN IF Truthy(mapped) THEN mapped ELSE arg

\* Map.set on an insertion-ordered map kept as a sequence of <<key, value>>.
MapSet(m, k, v) ==
    IF \E i \in 1..Len(m) : m[i][1] = k
    THEN [i \in 1..Len(m) |-> IF m[i][1] = k THEN <<k, v>> ELSE m[i]]
    ELSE Append(m, <<k, v>>)

\* ------------------------------------------------ arguments of a call
\* A replacement of the parsed config: ${name:arg}.
Replacement(name, arg) == [name |-> name, arg |-> arg]
Replacements ==
    {Replacement("input", a) : a \in {"p", "q", "c", "x", "m", "zz"}}
    \cup {Replacement("command", "k"), Replacement("env", "HOME")}
\* The replacements of the calls that run concurrently: the inputs that
\* prompt, and a command variable.
PromptingReplacements ==
    {Replacement("input", a) : a \in {"p", "q", "c"}} \cup {Replacement("command", "k")}
UnresolvedOver(replacements) == UNION {[1..n -> replacements] : n \in 0..MaxVars}

Sections == {"", "tasks"}
Targets == {ConfigurationTarget_USER, ConfigurationTarget_USER_REMOTE,
            ConfigurationTarget_WORKSPACE, ConfigurationTarget_WORKSPACE_FOLDER}
CommandArgs == {"k"}
NoCommandMap == [defined |-> FALSE, entries |-> [a \in CommandArgs |-> Undefined]]
VariableToCommandMaps ==
    {NoCommandMap}
    \cup {[defined |-> TRUE, entries |-> [a \in CommandArgs |-> m]] : m \in {"", "mapped"}}
Arguments ==
    [unresolved : UnresolvedOver(Replacements), section : Sections, target : Targets,
     variableToCommandMap : VariableToCommandMaps]
PromptingArguments ==
    [unresolved : UnresolvedOver(PromptingReplacements), section : {"tasks"},
     target : {ConfigurationTarget_WORKSPACE_FOLDER},
     variableToCommandMap : {NoCommandMap}]

\* What a command, an input box and a quick pick can come back with.
CommandResults == {"a", Undefined, Null, NonString}
InputResults == {"", "a", Undefined}

\* Variant: the variables are collected last first.
RECURSIVE InputOrCommandVariablesReversed(_)
InputOrCommandVariablesReversed(unresolved) ==
    IF unresolved = <<>> THEN <<>>
    ELSE IF Head(unresolved).name \in {"input", "command"}
    THEN InputOrCommandVariablesReversed(Tail(unresolved))
         \o <<[name |-> Head(unresolved).name, type |-> Head(unresolved).name,
               arg |-> Head(unresolved).arg]>>
    ELSE InputOrCommandVariablesReversed(Tail(unresolved))

\* Variant: every replacement is taken for a variable to resolve.
InputOrCommandVariablesUnfiltered(unresolved) ==
    [n \in 1..Len(unresolved) |->
        [name |-> unresolved[n].name, type |-> unresolved[n].name, arg |-> unresolved[n].arg]]

\* The input and command replacements of the config, in order of appearance.
RECURSIVE InputOrCommandVariables(_)
InputOrCommandVariables(unresolved) ==
    IF unresolved = <<>> THEN <<>>
    ELSE IF Head(unresolved).name \in {"input", "command"}
    THEN <<[name |-> Head(unresolved).name, type |-> Head(unresolved).name,
            arg |-> Head(unresolved).arg]>> \o InputOrCommandVariables(Tail(unresolved))
    ELSE InputOrCommandVariables(Tail(unresolved))

\* ------------------------------------------------------ state of one call
Ev(e, i, w) == [ev |-> e, i |-> i, what |-> w]
NoTask == [kind |-> "none", key |-> "", default |-> Undefined, options |-> <<>>,
           value |-> Undefined, picks |-> <<>>, remembered |-> Undefined]
NoArguments ==
    [unresolved |-> <<>>, section |-> "", target |-> ConfigurationTarget_WORKSPACE_FOLDER,
     variableToCommandMap |-> NoCommandMap]
Pending == [kind |-> "pending", error |-> "", message |-> ""]
IdleCall ==
    [pc |-> "idle", args |-> NoArguments, variables |-> <<>>, idx |-> 0,
     resolvedVariables |-> <<>>, interaction |-> "pending", ret |-> Pending,
     defaultValueMap |-> <<>>, task |-> NoTask, trace |-> <<>>]

Log(s, e, w) == [s EXCEPT !.trace = Append(@, Ev(e, s.idx, w))]
\* History: the loop over the variables turns to the variable at s.idx.
VariableName(variable) == variable.type \o ":" \o variable.arg
LogVariable(s) == Log(s, "variable", VariableName(s.variables[s.idx]))

\* throw new VariableError(kind, message) out of resolveWithInteraction: the
\* promise of resolveWithInteractionReplace rejects with it.
Throw(s, kind, message) ==
    [s EXCEPT !.pc = "done", !.interaction = "throw",
              !.ret = [kind |-> "throw", error |-> kind, message |-> message]]

\* Variant: the undefined result of resolveWithInteraction is not checked.
AfterInteractionUnchecked(s) ==
    IF Len(s.resolvedVariables) > 0
    THEN [Log(s, "resolveAnyAsync", "variables") EXCEPT !.pc = "final"]
    ELSE [s EXCEPT !.pc = "done", !.ret = [kind |-> "config", error |-> "", message |-> ""]]

\* Variant: the final resolveAnyAsync runs whatever the size of the map.
AfterInteractionAlwaysFinal(s) ==
    IF s.interaction = "undefined"
    THEN [s EXCEPT !.pc = "done", !.ret = [kind |-> "null", error |-> "", message |-> ""]]
    ELSE [Log(s, "resolveAnyAsync", "variables") EXCEPT !.pc = "final"]

\* resolveWithInteractionReplace once resolveWithInteraction has returned.
AfterInteraction(s) ==
    IF s.interaction = "undefined"
    THEN [s EXCEPT !.pc = "done", !.ret = [kind |-> "null", error |-> "", message |-> ""]]
    ELSE IF Len(s.resolvedVariables) > 0
    THEN [Log(s, "resolveAnyAsync", "variables") EXCEPT !.pc = "final"]
    ELSE [s EXCEPT !.pc = "done", !.ret = [kind |-> "config", error |-> "", message |-> ""]]

\* Variant: a canceled variable does not end the loop.
AfterResultIgnoringCancel(s, result) ==
    LET variable == s.variables[s.idx]
        name == (IF variable.type = "command" THEN "command:" ELSE "input:") \o variable.arg
        s1 == [s EXCEPT !.resolvedVariables = MapSet(@, name, result)]
    IN IF s.idx = Len(s.variables)
       THEN AfterInteraction([s1 EXCEPT !.interaction = "map"])
       ELSE [s1 EXCEPT !.pc = "loop", !.idx = @ + 1]

\* The end of one iteration of the loop over the variables, with the result
\* of the variable at s.idx.
AfterResult(s, result) ==
    LET variable == s.variables[s.idx]
        name == (IF variable.type = "command" THEN "command:" ELSE "input:") \o variable.arg
    IN IF result = Undefined
       THEN AfterInteraction([s EXCEPT !.interaction = "undefined"])
       ELSE LET s1 == [s EXCEPT !.resolvedVariables = MapSet(@, name, result)]
            IN IF s.idx = Len(s.variables)
               THEN AfterInteraction([s1 EXCEPT !.interaction = "map"])
               ELSE [s1 EXCEPT !.pc = "loop", !.idx = @ + 1]

\* -------------------------------------------------- the user input queue
\* Queue = Limiter with one running promise at most.
MaxDegreeOfParallelism == 1

RECURSIVE Limiter_consume(_, _)
Limiter_consume(q, started) ==
    IF Len(q.outstandingPromises) > 0 /\ q.runningPromises < MaxDegreeOfParallelism
    THEN Limiter_consume([outstandingPromises |-> Tail(q.outstandingPromises),
                          runningPromises |-> q.runningPromises + 1],
                         Append(started, Head(q.outstandingPromises)))
    ELSE [queue |-> q, started |-> started]

Limiter_queue(q, c) ==
    Limiter_consume([q EXCEPT !.outstandingPromises = Append(@, c)], <<>>)

Limiter_consumed(q) ==
    LET q1 == [q EXCEPT !.runningPromises = @ - 1]
    IN IF Len(q1.outstandingPromises) > 0 THEN Limiter_consume(q1, <<>>)
       ELSE [queue |-> q1, started |-> <<>>]

\* Variant: the task is run at once, not handed to the queue.
RunUserInputDirectly(q, c) == [queue |-> q, started |-> <<c>>]

\* this.userInputAccessQueue.queue(() => ...): the task of call c is handed
\* to the queue; `started` are the calls whose task begins to execute.
QueueUserInput(q, c) == Limiter_queue(q, c)

SeqRange(sq) == {sq[i] : i \in 1..Len(sq)}

\* ---------------------------------------------------------- showUserInput
\* showUserInput(section, variable, inputInfos) up to the point where it
\* throws or hands a task to the queue. `contents` is what storage holds
\* under LAST_INPUT_STORAGE_KEY; `remembered` is the value last answered for
\* the key (history, for the statements about the cache).
showUserInput(s, inputInfos, contents, remembered) ==
    LET variable == s.variables[s.idx].arg
        n == InfoIndex(inputInfos.items, variable)
    IN IF ~inputInfos.present
       THEN [call |-> Throw(s, VariableKind_Input, "inputVariable.noInputSection"),
             queued |-> FALSE]
       ELSE IF n = 0
       THEN [call |-> Throw(s, VariableKind_Input, "inputVariable.undefinedVariable"),
             queued |-> FALSE]
       ELSE
         LET info == inputInfos.items[n]
             stored == readInputLru(contents)
             defaultValueKey == DefaultValueKey(s.args.section, variable)
             previousPickedValue == LruGetValue(stored, defaultValueKey)
             s1 == [Log(s, "readInputLru", defaultValueKey)
                      EXCEPT !.defaultValueMap = LruGetCache(stored, defaultValueKey)]
         IN IF ~InputTypeHandled(info.type)
            THEN [call |-> Throw(s1, VariableKind_Input, "inputVariable.unknownType"),
                  queued |-> FALSE]
            ELSE IF MissingAttribute(info) # ""
            THEN [call |-> Throw(s1, VariableKind_Input, "inputVariable.missingAttribute"),
                  queued |-> FALSE]
            ELSE [call |-> [Log(s1, "queue", info.type) EXCEPT
                      !.pc = "awaitInput",
                      !.task = [kind |-> info.type,
                                key |-> defaultValueKey,
                                default |-> info.default,
                                options |-> info.options,
                                value |-> IF info.type = "promptString"
                                          THEN InputOptionsValue(info, previousPickedValue)
                                          ELSE Undefined,
                                picks |-> IF info.type = "pickString"
                                          THEN BuildPicks(info.options, info.default,
                                                          previousPickedValue)
                                          ELSE <<>>,
                                remembered |-> remembered]],
                  queued |-> TRUE]

\* -------------------------------------------------------------------- state
VARIABLES
    workbenchState,        \* workspaceContextService.getWorkbenchState()
    configuration,         \* configurationService: inspect(section), getValue(section)
    storage,               \* storageService: contents under LAST_INPUT_STORAGE_KEY
    userInputAccessQueue,  \* the queue of user input tasks
    executing,             \* calls whose queued task is executing
    call,                  \* the calls of resolveWithInteractionReplace
    queuedOrder,           \* history: tasks in the order they were queued
    startedOrder,          \* history: tasks in the order they began to execute
    lastPicked,            \* history: per key, the value last answered and the
                           \* other keys stored since
    mcpState,              \* IMcpServerConnection.state: the kind of the state
    startPromises,         \* the promises returned by start()
    filesystem,            \* fileService: the files that exist
    locations,             \* configService: the configured prompt locations
    matching               \* the result of findAllMatchingPromptFiles()

resolverVars == <<workbenchState, configuration, storage, userInputAccessQueue,
                  executing, call, queuedOrder, startedOrder, lastPicked>>
mcpVars == <<mcpState, startPromises>>
locatorVars == <<filesystem, locations, matching>>
vars == <<resolverVars, mcpVars, locatorVars>>

\* ---------------------------------------------------- MCP server connection
NStarts == 3
Starts == 1..NStarts

\* McpConnectionState.Kind
Kind_Stopped == "Stopped"
Kind_Starting == "Starting"
Kind_Running == "Running"
Kind_Error == "Error"
Kinds == {Kind_Stopped, Kind_Starting, Kind_Running, Kind_Error}

\* Returns if the MCP state is one where starting a new server is valid.
canBeStarted(s) == s = Kind_Error \/ s = Kind_Stopped

\* A call of start() that has not been made (or whose promise was taken).
NotStarted == [phase |-> "idle", from |-> Kind_Stopped, state |-> Kind_Stopped]

\* Variant: start() resolves with the state it finds after starting.
StartPromiseAtOnce(from, state) == [phase |-> "resolved", from |-> from, state |-> state]

\* The promise of a start() called in state `from`, the connection being in
\* `state`: pending while the server is starting, else resolved with it.
StartPromise(from, state) ==
    [phase |-> IF state = Kind_Starting THEN "pending" ELSE "resolved",
     from |-> from, state |-> state]

\* The connection changes to `state`: the pending promises see it.
Settle(promises, state) ==
    [p \in Starts |-> IF promises[p].phase = "pending"
                      THEN StartPromise(promises[p].from, state)
                      ELSE promises[p]]

\* The connection after construction.
NoConnection ==
    /\ mcpState = Kind_Stopped
    /\ startPromises = [p \in Starts |-> NotStarted]

\* ------------------------------------------------------ prompt files locator
MaxLocations == 2

\* A file or folder name is the sequence of its parts between dots, a path
\* the sequence of its names.
WorkspaceFolder == << <<"vscode">> >>
WorkspaceFolders == {WorkspaceFolder}
Under(folder, names) == folder \o names
Files ==
    {Under(WorkspaceFolder, << <<"deps">>, <<"text">>, <<"my", "prompt", "md">> >>),
     Under(WorkspaceFolder,
           << <<"deps">>, <<"text">>, <<"nested">>, <<"specific", "prompt", "md">> >>),
     Under(WorkspaceFolder, << <<"deps">>, <<"text">>, <<"nested">>, <<"readme", "md">> >>),
     Under(WorkspaceFolder, << <<"deps">>, <<"prompt", "md">> >>),
     Under(WorkspaceFolder, << <<"readme", "md">> >>)}

\* A glob pattern is the sequence of its segments, a segment being written
\* like a name: '**', '*', '*.md', '*.prompt.md', or a name.
Relative(segments) == [absolute |-> FALSE, segments |-> segments]
Absolute(segments) == [absolute |-> TRUE, segments |-> Under(WorkspaceFolder, segments)]
Patterns ==
    {Relative(<< <<"**">> >>),
     Relative(<< <<"**">>, <<"*">> >>),
     Relative(<< <<"**">>, <<"*", "md">> >>),
     Relative(<< <<"**">>, <<"*", "prompt", "md">> >>),
     Relative(<< <<"deps">>, <<"text">>, <<"**">> >>),
     Relative(<< <<"**">>, <<"text">>, <<"**">>, <<"*", "md">> >>),
     Absolute(<< <<"**">> >>),
     Absolute(<< <<"**">>, <<"*", "md">> >>),
     Absolute(<< <<"deps">>, <<"**">>, <<"*">> >>)}

\* The values of the locations setting: glob pattern -> enabled.
Location(pattern, enabled) == [pattern |-> pattern, enabled |-> enabled]
Locations == {Location(p, e) : p \in Patterns, e \in BOOLEAN}

\* One segment of a glob pattern against one name: a leading '*' stands for
\* any beginning of the name.
SegmentMatches(segment, name) ==
    IF Head(segment) = "*"
    THEN /\ Len(name) >= Len(segment)
         /\ SubSeq(name, Len(name) - Len(segment) + 2, Len(name)) = Tail(segment)
    ELSE segment = name

\* The glob pattern against a path: '**' stands for any number of names.
RECURSIVE GlobMatches(_, _)
GlobMatches(segments, path) ==
    IF segments = <<>> THEN path = <<>>
    ELSE IF Head(segments) = <<"**">>
    THEN \/ GlobMatches(Tail(segments), path)
         \/ Tail(segments) = <<>>
         \/ path # <<>> /\ GlobMatches(segments, Tail(path))
    ELSE /\ path # <<>>
         /\ SegmentMatches(Head(segments), Head(path))
         /\ GlobMatches(Tail(segments), Tail(path))

\* A relative pattern is taken from the workspace folder.
ResolvePattern(folder, pattern) ==
    IF pattern.absolute THEN pattern.segments ELSE Under(folder, pattern.segments)

\* Variant: every markdown file counts as a prompt file.
isMarkdownFile(file) ==
    LET name == file[Len(file)]
    IN Len(name) >= 2 /\ name[Len(name)] = "md"

\* The file name ends with the prompt file extension '.prompt.md'.
isPromptFile(file) ==
    LET name == file[Len(file)]
    IN Len(name) >= 3 /\ SubSeq(name, Len(name) - 1, Len(name)) = <<"prompt", "md">>

\* findAllMatchingPromptFiles(): the prompt files that an enabled location
\* matches in a workspace folder.
findAllMatchingPromptFiles(files, settings, folders) ==
    {file \in files :
        /\ isPromptFile(file)
        /\ \E location \in settings, folder \in folders :
              /\ location.enabled
              /\ GlobMatches(ResolvePattern(folder, location.pattern), file)}

NotSearched == [done |-> FALSE, files |-> {}]

\* The locator after construction, on an empty filesystem with no setting.
NoLocator ==
    /\ filesystem = {}
    /\ locations = {}
    /\ matching = NotSearched

NothingInspected ==
    [userValue |-> ValueUndefined, userRemoteValue |-> ValueUndefined,
     workspaceValue |-> ValueUndefined, workspaceFolderValue |-> ValueUndefined]
InspectedIn(scope, value) ==
    [userValue |-> IF scope = ConfigurationTarget_USER THEN value ELSE ValueUndefined,
     userRemoteValue |-> IF scope = ConfigurationTarget_USER_REMOTE THEN value
                         ELSE ValueUndefined,
     workspaceValue |-> IF scope = ConfigurationTarget_WORKSPACE THEN value
                        ELSE ValueUndefined,
     workspaceFolderValue |-> IF scope = ConfigurationTarget_WORKSPACE_FOLDER THEN value
                              ELSE ValueUndefined]
\* The section is set in no scope (getValue gives the default) or in one.
Configurations ==
    {[inspect |-> NothingInspected, value |-> v] : v \in ConfigValues}
    \cup {[inspect |-> InspectedIn(scope, v), value |-> v] :
             scope \in Targets, v \in {ValueWithoutInputs, ValueWithInputs}}
FolderConfiguration ==
    [inspect |-> InspectedIn(ConfigurationTarget_WORKSPACE_FOLDER, ValueWithInputs),
     value |-> ValueWithInputs]
UserConfiguration ==
    [inspect |-> InspectedIn(ConfigurationTarget_USER, ValueWithInputs),
     value |-> ValueWithInputs]

Keys == {DefaultValueKey(sec, v.arg) : sec \in Sections,
                                       v \in {r \in Replacements : r.name = "input"}}
NothingPicked == [k \in Keys |-> [value |-> Undefined, others |-> {}]]

\* History: value was stored under key.
Remember(lp, key, value) ==
    [k \in Keys |-> IF k = key THEN [value |-> value, others |-> {}]
                    ELSE [lp[k] EXCEPT !.others = @ \cup {key}]]
\* History: the value last answered for key, if fewer than
\* LAST_INPUT_CACHE_SIZE other keys were stored since.
Remembered(lp, key) ==
    IF Cardinality(lp[key].others) < LAST_INPUT_CACHE_SIZE THEN lp[key].value
    ELSE Undefined

NoCalls ==
    /\ storage = [defined |-> FALSE, json |-> <<>>]
    /\ userInputAccessQueue = [outstandingPromises |-> <<>>, runningPromises |-> 0]
    /\ executing = {}
    /\ call = [c \in Calls |-> IdleCall]
    /\ queuedOrder = <<>>
    /\ startedOrder = <<>>
    /\ lastPicked = NothingPicked

\* A folder is open and its configuration has the 'inputs'.
Init ==
    /\ workbenchState = WorkbenchState_FOLDER
    /\ configuration = FolderConfiguration
    /\ NoCalls
    /\ NoConnection
    /\ NoLocator

\* Any workbench state and configuration; with no folder open the section
\* is a user setting.
InitOne ==
    /\ \/ workbenchState = WorkbenchState_EMPTY /\ configuration = UserConfiguration
       \/ workbenchState = WorkbenchState_FOLDER /\ configuration \in Configurations
    /\ NoCalls
    /\ NoConnection
    /\ NoLocator

TaskId(c) == <<c, call[c].idx>>
TaskIds(started) == [i \in 1..Len(started) |-> TaskId(started[i])]
\* The tasks in `started` begin to execute.
MarkStarted(calls, started) ==
    [d \in Calls |-> IF d \in SeqRange(started) THEN Log(calls[d], "start", "") ELSE calls[d]]

Variable(c) == call[c].variables[call[c].idx]

\* ------------------------------------------------------------------ actions
\* resolveWithInteractionReplace(folder, config, section, variables, target)
\* is called with one of `arguments`: the first, non-interactive
\* resolveAnyAsync is awaited.
ResolveWithInteractionReplace(c, arguments) ==
    /\ call[c].pc = "idle"
    /\ \E a \in arguments :
          call' = [call EXCEPT ![c] =
                      [Log(call[c], "resolveAnyAsync", "config") EXCEPT
                          !.pc = "resolveAny", !.args = a]]
    /\ UNCHANGED <<mcpVars, locatorVars, workbenchState, configuration, storage,
                   userInputAccessQueue, executing, queuedOrder, startedOrder, lastPicked>>

\* resolveWithInteraction: parse the config, collect the input and command
\* variables, return at once when there are none.
ResolveWithInteraction(c) ==
    /\ call[c].pc = "resolveAny"
    /\ LET variables == InputOrCommandVariables(call[c].args.unresolved)
           s == [call[c] EXCEPT !.variables = variables]
       IN call' = [call EXCEPT ![c] =
                      IF Len(variables) = 0
                      THEN AfterInteraction([s EXCEPT !.interaction = "map"])
                      ELSE [s EXCEPT !.pc = "loop", !.idx = 1]]
    /\ UNCHANGED <<mcpVars, locatorVars, workbenchState, configuration, storage,
                   userInputAccessQueue, executing, queuedOrder, startedOrder, lastPicked>>

\* A command variable: the command is executed and awaited.
ExecuteCommand(c) ==
    /\ call[c].pc = "loop"
    /\ Variable(c).type = "command"
    /\ LET commandId == CommandId(call[c].args.variableToCommandMap, Variable(c).arg)
       IN call' = [call EXCEPT ![c] =
                      [Log(LogVariable(call[c]), "executeCommand", commandId)
                          EXCEPT !.pc = "awaitCommand"]]
    /\ UNCHANGED <<mcpVars, locatorVars, workbenchState, configuration, storage,
                   userInputAccessQueue, executing, queuedOrder, startedOrder, lastPicked>>

\* The command of a command variable returns result.
CommandReturns(c, result) ==
    /\ call[c].pc = "awaitCommand"
    /\ LET s == Log(call[c], "result", result)
       IN call' = [call EXCEPT ![c] =
                      IF ~Types_isString(result) /\ ~Types_isUndefinedOrNull(result)
                      THEN Throw(s, VariableKind_Command, "commandVariable.noStringType")
                      ELSE AfterResult(s, result)]
    /\ UNCHANGED <<mcpVars, locatorVars, workbenchState, configuration, storage,
                   userInputAccessQueue, executing, queuedOrder, startedOrder, lastPicked>>

\* An input variable: resolveInputs, then showUserInput, which throws or
\* queues its prompt. resolveInputs awaits nothing and the configuration does
\* not change, so the two run as one step. The cache is read here, before
\* the prompt is queued; it is written when the prompt is answered.
ShowUserInput(c) ==
    /\ call[c].pc = "loop"
    /\ Variable(c).type = "input"
    /\ LET inputInfos == resolveInputs(workbenchState, call[c].args.section,
                                       configuration.inspect, configuration.value,
                                       call[c].args.target)
           key == DefaultValueKey(call[c].args.section, Variable(c).arg)
           r == showUserInput(Log(LogVariable(call[c]), "resolveInputs", ""), inputInfos, storage,
                              Remembered(lastPicked, key))
           sub == QueueUserInput(userInputAccessQueue, c)
       IN IF r.queued
          THEN /\ userInputAccessQueue' = sub.queue
               /\ executing' = executing \cup SeqRange(sub.started)
               /\ call' = MarkStarted([call EXCEPT ![c] = r.call], sub.started)
               /\ queuedOrder' = Append(queuedOrder, TaskId(c))
               /\ startedOrder' = startedOrder \o TaskIds(sub.started)
          ELSE /\ call' = [call EXCEPT ![c] = r.call]
               /\ UNCHANGED <<userInputAccessQueue, executing, queuedOrder, startedOrder>>
    /\ UNCHANGED <<mcpVars, locatorVars, workbenchState, configuration, storage, lastPicked>>

\* The executing task of call c completes: the queue takes the next task,
\* and call c goes on as s (the then-callback and the rest of the iteration).
TaskCompletes(c, s) ==
    LET done == Limiter_consumed(userInputAccessQueue)
    IN /\ userInputAccessQueue' = done.queue
       /\ executing' = (executing \ {c}) \cup SeqRange(done.started)
       /\ call' = MarkStarted([call EXCEPT ![c] = s], done.started)
       /\ startedOrder' = startedOrder \o TaskIds(done.started)
       /\ UNCHANGED <<mcpVars, locatorVars, workbenchState, configuration, queuedOrder>>

\* The input box of a promptString answers with a string, or undefined when
\* the user cancels.
InputResolves(c, resolvedInput) ==
    /\ c \in executing
    /\ call[c].task.kind = "promptString"
    /\ LET key == call[c].task.key
       IN IF Types_isString(resolvedInput)
          THEN /\ storage' = storeInputLru(LruSet(call[c].defaultValueMap, key, resolvedInput))
               /\ lastPicked' = Remember(lastPicked, key, resolvedInput)
               /\ TaskCompletes(c, AfterResult(Log(Log(call[c], "result", resolvedInput),
                                                   "storeInputLru", key), resolvedInput))
          ELSE /\ UNCHANGED <<storage, lastPicked>>
               /\ TaskCompletes(c, AfterResult(Log(call[c], "result", resolvedInput),
                                               resolvedInput))

\* The quick pick of a pickString answers with item n of the list shown, or
\* undefined (n = 0) when the user cancels.
PickResolves(c, n) ==
    /\ c \in executing
    /\ call[c].task.kind = "pickString"
    /\ n \in 0..Len(call[c].task.picks)
    /\ LET key == call[c].task.key
           value == IF n = 0 THEN Undefined ELSE call[c].task.picks[n].value
       IN IF n # 0
          THEN /\ storage' = storeInputLru(LruSet(call[c].defaultValueMap, key, value))
               /\ lastPicked' = Remember(lastPicked, key, value)
               /\ TaskCompletes(c, AfterResult(Log(Log(call[c], "result", value),
                                                   "storeInputLru", key), value))
          ELSE /\ UNCHANGED <<storage, lastPicked>>
               /\ TaskCompletes(c, AfterResult(Log(call[c], "result", value), value))

\* The command of an input of type command returns result.
InputCommandReturns(c, result) ==
    /\ c \in executing
    /\ call[c].task.kind = "command"
    /\ LET s == Log(call[c], "result", result)
       IN TaskCompletes(c, IF Types_isString(result) \/ Types_isUndefinedOrNull(result)
                           THEN AfterResult(s, result)
                           ELSE Throw(s, VariableKind_Input,
                                      "inputVariable.command.noStringType"))
    /\ UNCHANGED <<storage, lastPicked>>

\* The final resolveAnyAsync, with the resolved variables, returns.
FinalResolve(c) ==
    /\ call[c].pc = "final"
    /\ call' = [call EXCEPT ![c] =
                   [call[c] EXCEPT !.pc = "done",
                       !.ret = [kind |-> "resolved", error |-> "", message |-> ""]]]
    /\ UNCHANGED <<mcpVars, locatorVars, workbenchState, configuration, storage,
                   userInputAccessQueue, executing, queuedOrder, startedOrder, lastPicked>>

\* The calls are numbered in the order in which they are made, and their
\* configs have MaxTotalVars replacements at most between them.
RECURSIVE TotalVars(_)
TotalVars(c) ==
    IF c = 0 THEN 0 ELSE Len(call[c].args.unresolved) + TotalVars(c - 1)
MayCall(c) == \A d \in Calls : d < c => call[d].pc # "idle"
ArgumentsLeft ==
    {a \in PromptingArguments : TotalVars(NCalls) + Len(a.unresolved) <= MaxTotalVars}

\* Concurrent calls whose variables prompt.
Next ==
    \/ \E c \in Calls : MayCall(c) /\ ResolveWithInteractionReplace(c, ArgumentsLeft)
    \/ \E c \in Calls : ResolveWithInteraction(c)
    \/ \E c \in Calls : ExecuteCommand(c)
    \/ \E c \in Calls, result \in CommandResults : CommandReturns(c, result)
    \/ \E c \in Calls : ShowUserInput(c)
    \/ \E c \in Calls, resolvedInput \in InputResults : InputResolves(c, resolvedInput)
    \/ \E c \in Calls, n \in 0..MaxOptions : PickResolves(c, n)
    \/ \E c \in Calls, result \in CommandResults : InputCommandReturns(c, result)
    \/ \E c \in Calls : FinalResolve(c)

Spec == Init /\ [][Next]_vars

\* One call, with any arguments.
NextOne ==
    \/ ResolveWithInteractionReplace(1, Arguments)
    \/ ResolveWithInteraction(1)
    \/ ExecuteCommand(1)
    \/ \E result \in CommandResults : CommandReturns(1, result)
    \/ ShowUserInput(1)
    \/ \E resolvedInput \in InputResults : InputResolves(1, resolvedInput)
    \/ \E n \in 0..MaxOptions : PickResolves(1, n)
    \/ \E result \in CommandResults : InputCommandReturns(1, result)
    \/ FinalResolve(1)

SpecOne == InitOne /\ [][NextOne]_vars

\* Calls that resolve one pickString input, whose options and default are
\* any: the configuration of the folder has that input alone.
PickOptionValues == {"", "a", "b"}
PickOptions ==
    {StrOption(v) : v \in PickOptionValues}
    \cup {[str |-> FALSE, label |-> "L", value |-> v] : v \in PickOptionValues}
PickStringInputs ==
    {[id |-> "q", type |-> "pickString", description |-> "Q", default |-> d,
      optionsIsArray |-> TRUE, options |-> o, command |-> Undefined] :
        d \in PickOptionValues \cup {Undefined},
        o \in UNION {[1..n -> PickOptions] : n \in 0..MaxOptions}}
PickArguments ==
    [unresolved |-> <<Replacement("input", "q")>>, section |-> "tasks",
     target |-> ConfigurationTarget_WORKSPACE_FOLDER,
     variableToCommandMap |-> NoCommandMap]
PickCalls == {1, 2}

InitPicks ==
    /\ workbenchState = WorkbenchState_FOLDER
    /\ \E info \in PickStringInputs :
          LET value == [defined |-> TRUE, inputs |-> SomeInputs(<<info>>)]
          IN configuration =
                [inspect |-> InspectedIn(ConfigurationTarget_WORKSPACE_FOLDER, value),
                 value |-> value]
    /\ NoCalls
    /\ NoConnection
    /\ NoLocator

NextPicks ==
    \/ \E c \in PickCalls : ResolveWithInteractionReplace(c, {PickArguments})
    \/ \E c \in PickCalls : ResolveWithInteraction(c)
    \/ \E c \in PickCalls : ShowUserInput(c)
    \/ \E c \in PickCalls, n \in 0..MaxOptions : PickResolves(c, n)
    \/ \E c \in PickCalls : FinalResolve(c)

SpecPicks == InitPicks /\ [][NextPicks]_vars

\* ------------------------------------------- MCP server connection: actions
\* start(): starts the server if it can be started; the promise resolves
\* once the server is not starting.
McpStart(p) ==
    /\ startPromises[p].phase = "idle"
    /\ LET state == IF canBeStarted(mcpState) THEN Kind_Starting ELSE mcpState
       IN /\ mcpState' = state
          /\ startPromises' = [startPromises EXCEPT ![p] = StartPromise(mcpState, state)]
    /\ UNCHANGED <<resolverVars, locatorVars>>

\* The state observable changes to `state`.
McpSetState(state) ==
    /\ mcpState' = state
    /\ startPromises' = Settle(startPromises, state)
    /\ UNCHANGED <<resolverVars, locatorVars>>

\* The launch of a starting server succeeds.
McpLaunched == mcpState = Kind_Starting /\ McpSetState(Kind_Running)

\* The launch fails, or the running server is lost.
McpFailed == mcpState \in {Kind_Starting, Kind_Running} /\ McpSetState(Kind_Error)

\* stop()
McpStop == mcpState # Kind_Stopped /\ McpSetState(Kind_Stopped)

\* The caller of start() takes the resolved state.
McpStartReturns(p) ==
    /\ startPromises[p].phase = "resolved"
    /\ startPromises' = [startPromises EXCEPT ![p] = NotStarted]
    /\ UNCHANGED <<resolverVars, mcpState, locatorVars>>

NextMcp ==
    \/ \E p \in Starts : McpStart(p)
    \/ McpLaunched
    \/ McpFailed
    \/ McpStop
    \/ \E p \in Starts : McpStartReturns(p)

SpecMcp == Init /\ [][NextMcp]_vars

\* ------------------------------------------- prompt files locator: actions
\* A file is created.
FileCreated(file) ==
    /\ file \notin filesystem
    /\ filesystem' = filesystem \cup {file}
    /\ UNCHANGED <<resolverVars, mcpVars, locations, matching>>

\* A file is deleted.
FileDeleted(file) ==
    /\ file \in filesystem
    /\ filesystem' = filesystem \ {file}
    /\ UNCHANGED <<resolverVars, mcpVars, locations, matching>>

\* The locations setting changes: a glob pattern is added to it.
LocationAdded(location) ==
    /\ Cardinality(locations) < MaxLocations
    /\ \A other \in locations : other.pattern # location.pattern
    /\ locations' = locations \cup {location}
    /\ UNCHANGED <<resolverVars, mcpVars, filesystem, matching>>

\* The locations setting changes: a glob pattern is removed from it.
LocationRemoved(location) ==
    /\ location \in locations
    /\ locations' = locations \ {location}
    /\ UNCHANGED <<resolverVars, mcpVars, filesystem, matching>>

\* locator.findAllMatchingPromptFiles()
FindAllMatchingPromptFiles ==
    /\ matching' = [done |-> TRUE,
                    files |-> findAllMatchingPromptFiles(filesystem, locations,
                                                         WorkspaceFolders)]
    /\ UNCHANGED <<resolverVars, mcpVars, filesystem, locations>>

NextLocator ==
    \/ \E file \in Files : FileCreated(file)
    \/ \E file \in Files : FileDeleted(file)
    \/ \E location \in Locations : LocationAdded(location)
    \/ \E location \in Locations : LocationRemoved(location)
    \/ FindAllMatchingPromptFiles

SpecLocator == Init /\ [][NextLocator]_vars

TypeOK == \A c \in Calls : call[c].pc \in {"idle", "resolveAny", "loop", "awaitCommand",
                                            "awaitInput", "final", "done"}

\* ------------------------------------------------------------------ claims
IsInputOrCommand(r) == r.name \in {"input", "command"}
Begun(c) == SelectSeq(call[c].trace, LAMBDA e : e.ev = "variable")
Wanted(c) == SelectSeq(call[c].args.unresolved, IsInputOrCommand)
IsPrefix(a, b) == Len(a) <= Len(b) /\ \A i \in 1..Len(a) : a[i] = b[i]
ThrowOf(kind, message) == [kind |-> "throw", error |-> kind, message |-> message]

\* The configuration value resolveInputs takes the 'inputs' from.
SelectedValue(c) ==
    LET inspected == configuration.inspect
        target == call[c].args.target
    IN IF \E v \in {inspected.userValue, inspected.userRemoteValue,
                    inspected.workspaceValue, inspected.workspaceFolderValue} : v.defined
       THEN IF target = ConfigurationTarget_USER THEN inspected.userValue
            ELSE IF target = ConfigurationTarget_USER_REMOTE THEN inspected.userRemoteValue
            ELSE IF target = ConfigurationTarget_WORKSPACE THEN inspected.workspaceValue
            ELSE inspected.workspaceFolderValue
       ELSE configuration.value
NoInputsList(c) ==
    \/ workbenchState = WorkbenchState_EMPTY
    \/ call[c].args.section = ""
    \/ ~SelectedValue(c).defined
    \/ ~SelectedValue(c).inputs.present

\* C1: at most one task queued by showUserInput is executing at any moment,
\* and the queued tasks start in the order in which they were queued.
C1_SingleFlightInOrder ==
    /\ Cardinality(executing) <= 1
    /\ IsPrefix(startedOrder, queuedOrder)

\* Three calls have a task each: the second one queued is executing after
\* the first, the third one waits.
C1_Witness ==
    /\ Cardinality(executing) = 1
    /\ Len(userInputAccessQueue.outstandingPromises) = 1
    /\ Len(queuedOrder) = 3
    /\ Len(startedOrder) = 2

\* C2: if a variable of a call yields undefined, the call returns undefined
\* and nothing more is prompted for or executed by that call: the undefined
\* result is the last event of the call.
C2_CancelEndsTheCall ==
    \A c \in Calls : \A j \in 1..Len(call[c].trace) :
        (call[c].trace[j].ev = "result" /\ call[c].trace[j].what = Undefined)
        => /\ j = Len(call[c].trace)
           /\ call[c].interaction = "undefined"
           /\ call[c].pc = "done"

\* The first of two variables was canceled.
C2_Witness ==
    \E c \in Calls :
        /\ Len(call[c].variables) = 2
        /\ call[c].idx = 1
        /\ call[c].interaction = "undefined"
        /\ \E j \in 1..Len(call[c].trace) :
              call[c].trace[j].ev = "result" /\ call[c].trace[j].what = Undefined

\* C3: when resolveWithInteraction returned undefined,
\* resolveWithInteractionReplace returns null and the final resolveAnyAsync
\* with the resolved variables is never run.
C3_CancelGivesNull ==
    \A c \in Calls :
        call[c].interaction = "undefined"
        => /\ call[c].ret.kind = "null"
           /\ call[c].pc = "done"
           /\ \A j \in 1..Len(call[c].trace) :
                 ~(call[c].trace[j].ev = "resolveAnyAsync"
                   /\ call[c].trace[j].what = "variables")

\* A variable was resolved, the next one canceled: null is returned.
C3_Witness ==
    \E c \in Calls :
        /\ call[c].interaction = "undefined"
        /\ Len(call[c].resolvedVariables) > 0
        /\ call[c].ret.kind = "null"

\* C4: the variables of a call are turned to in the order in which they
\* appear among the unresolved replacements, and nothing of variable i+1
\* (its command, its prompt) happens before the result of variable i is there.
C4_InOrderOneAtATime ==
    \A c \in Calls :
        /\ Len(Begun(c)) <= Len(Wanted(c))
        /\ \A n \in 1..Len(Begun(c)) :
              /\ Begun(c)[n].i = n
              /\ Begun(c)[n].what = Wanted(c)[n].name \o ":" \o Wanted(c)[n].arg
        /\ \A j \in 1..Len(call[c].trace) :
              (call[c].trace[j].ev \in {"variable", "executeCommand", "resolveInputs",
                                        "readInputLru", "queue", "start"}
               /\ call[c].trace[j].i > 1)
              => \E k \in 1..(j - 1) :
                    /\ call[c].trace[k].ev = "result"
                    /\ call[c].trace[k].i = call[c].trace[j].i - 1

\* Two different variables were resolved, one after the other.
C4_Witness ==
    \E c \in Calls :
        /\ Len(call[c].resolvedVariables) = 2
        /\ Wanted(c)[1] # Wanted(c)[2]
        /\ call[c].pc = "final"

\* C5: with no unresolved input or command variable, resolveWithInteraction
\* returns an empty map and has executed no command, read no inputs
\* configuration, read or written no cache storage and queued no prompt.
C5_NothingToResolve ==
    \A c \in Calls :
        (call[c].pc \notin {"idle", "resolveAny"}
         /\ \A n \in 1..Len(call[c].args.unresolved) :
               ~IsInputOrCommand(call[c].args.unresolved[n]))
        => /\ call[c].interaction = "map"
           /\ call[c].resolvedVariables = <<>>
           /\ call[c].trace = <<Ev("resolveAnyAsync", 0, "config")>>
           /\ \A n \in 1..Len(queuedOrder) : queuedOrder[n][1] # c

\* A config with unresolved replacements, none of them input or command.
C5_Witness ==
    \E c \in Calls :
        /\ Len(call[c].args.unresolved) > 0
        /\ Wanted(c) = <<>>
        /\ call[c].pc = "done"
        /\ call[c].ret.kind = "config"

\* What a prompt offers first: the initial value of the input box, the
\* value of the first pick item.
Offered(task) ==
    IF task.kind = "promptString" THEN task.value
    ELSE IF task.picks = <<>> THEN Undefined
    ELSE task.picks[1].value

\* C6: a value answered for (section, variable) is persisted under the key
\* section.variable, and the next showUserInput for that key with no default
\* configured offers it, as long as fewer than LAST_INPUT_CACHE_SIZE other
\* keys were stored in between.
C6_LastPickedIsCached ==
    /\ \A key \in Keys :
          Remembered(lastPicked, key) # Undefined
          => LruLookup(readInputLru(storage), key) = Remembered(lastPicked, key)
    /\ \A c \in Calls :
          (/\ call[c].task.kind \in {"promptString", "pickString"}
           /\ call[c].task.default = Undefined
           /\ call[c].task.remembered # Undefined)
          => Offered(call[c].task) = call[c].task.remembered

\* The label and value of the pick item made of option o.
ItemOf(o) == <<PickItem(o, Undefined).label, o.value>>
ShownAs(item) == <<item.label, item.value>>
Count(sq, x) == Cardinality({i \in 1..Len(sq) : sq[i] = x})
ItemsOf(options) == [i \in 1..Len(options) |-> ItemOf(options[i])]
Shown(picks) == [i \in 1..Len(picks) |-> ShownAs(picks[i])]

\* C7: for a pickString input with a configured default the pick list has
\* one item per configured option, the item whose value is the default comes
\* first and is described as '(Default)', and the other items keep their
\* configured relative order.
C7_DefaultFirstOthersInOrder ==
    \A c \in Calls :
        (call[c].task.kind = "pickString" /\ call[c].task.default # Undefined)
        => LET picks == call[c].task.picks
               options == call[c].task.options
               default == call[c].task.default
           IN /\ Len(picks) = Len(options)
              /\ \A i \in 1..Len(options) :
                    Count(Shown(picks), ItemOf(options[i]))
                    = Count(ItemsOf(options), ItemOf(options[i]))
              /\ (\E i \in 1..Len(options) : options[i].value = default)
                 => /\ picks[1].value = default
                    /\ picks[1].description = "(Default)"
              /\ SelectSeq(Shown(picks), LAMBDA x : x[2] # default)
                 = SelectSeq(ItemsOf(options), LAMBDA x : x[2] # default)

\* The same with a default that is not the empty string.
C7_NonEmptyDefaultFirst ==
    \A c \in Calls :
        (call[c].task.kind = "pickString" /\ call[c].task.default \notin {Undefined, ""})
        => LET picks == call[c].task.picks
               options == call[c].task.options
               default == call[c].task.default
           IN /\ Len(picks) = Len(options)
              /\ \A i \in 1..Len(options) :
                    Count(Shown(picks), ItemOf(options[i]))
                    = Count(ItemsOf(options), ItemOf(options[i]))
              /\ (\E i \in 1..Len(options) : options[i].value = default)
                 => /\ picks[1].value = default
                    /\ picks[1].description = "(Default)"
              /\ SelectSeq(Shown(picks), LAMBDA x : x[2] # default)
                 = SelectSeq(ItemsOf(options), LAMBDA x : x[2] # default)

\* C8: the command executed for a command variable is
\* variableToCommandMap[arg] when that exists and is not empty, else arg; a
\* result that is neither a string nor undefined/null makes the call throw
\* a VariableError of kind Command, and no map is returned.
C8_CommandVariable ==
    \A c \in Calls : \A j \in 1..Len(call[c].trace) :
        LET e == call[c].trace[j]
            arg == call[c].variables[e.i].arg
            map == call[c].args.variableToCommandMap
        IN /\ e.ev = "executeCommand"
              => e.what = IF map.defined /\ map.entries[arg] \notin {Undefined, Null, ""}
                          THEN map.entries[arg] ELSE arg
           /\ (e.ev = "result" /\ call[c].variables[e.i].type = "command"
               /\ e.what \notin {Undefined, Null} /\ ~Types_isString(e.what))
              => /\ j = Len(call[c].trace)
                 /\ call[c].interaction = "throw"
                 /\ call[c].ret = ThrowOf(VariableKind_Command, "commandVariable.noStringType")

\* The mapped command was executed and returned a non-string.
C8_Witness ==
    \E c \in Calls :
        /\ call[c].ret = ThrowOf(VariableKind_Command, "commandVariable.noStringType")
        /\ \E j \in 1..Len(call[c].trace) :
              call[c].trace[j].ev = "executeCommand" /\ call[c].trace[j].what = "mapped"

\* C9: an input variable resolved when no inputs list is there (no folder
\* open, empty section, or no 'inputs' in the selected configuration value)
\* throws the VariableError of kind Input about the 'inputs' section, and no
\* prompt is queued for it.
C9_NoInputsSection ==
    \A c \in Calls : \A j \in 1..Len(call[c].trace) :
        (call[c].trace[j].ev = "resolveInputs" /\ NoInputsList(c))
        => /\ j = Len(call[c].trace)
           /\ call[c].ret = ThrowOf(VariableKind_Input, "inputVariable.noInputSection")
           /\ <<c, call[c].trace[j].i>> \notin SeqRange(queuedOrder)

\* A folder is open, the section is named, the selected value has no 'inputs'.
C9_Witness ==
    \E c \in Calls :
        /\ workbenchState = WorkbenchState_FOLDER
        /\ call[c].args.section # ""
        /\ SelectedValue(c).defined
        /\ call[c].ret = ThrowOf(VariableKind_Input, "inputVariable.noInputSection")

\* C10: an input variable whose id is the id of no entry of the inputs list
\* throws the VariableError 'Undefined input variable' of kind Input: no
\* prompt is queued and the cache storage is neither read nor written.
C10_UndefinedInputVariable ==
    \A c \in Calls : \A j \in 1..Len(call[c].trace) :
        (/\ call[c].trace[j].ev = "resolveInputs"
         /\ ~NoInputsList(c)
         /\ \A n \in 1..Len(SelectedValue(c).inputs.items) :
               SelectedValue(c).inputs.items[n].id # call[c].variables[call[c].trace[j].i].arg)
        => /\ j = Len(call[c].trace)
           /\ call[c].ret = ThrowOf(VariableKind_Input, "inputVariable.undefinedVariable")
           /\ <<c, call[c].trace[j].i>> \notin SeqRange(queuedOrder)

\* The second variable of a call has an id that is not configured.
C10_Witness ==
    \E c \in Calls :
        /\ call[c].idx = 2
        /\ call[c].ret = ThrowOf(VariableKind_Input, "inputVariable.undefinedVariable")

\* The entry of the inputs list that showUserInput takes for the variable
\* begun at trace position j of call c: the last one with its id, 0 if none.
ConfiguredAs(c, j) ==
    LET items == SelectedValue(c).inputs.items
        arg == call[c].variables[call[c].trace[j].i].arg
    IN IF \E n \in 1..Len(items) : items[n].id = arg
       THEN CHOOSE n \in 1..Len(items) :
               /\ items[n].id = arg
               /\ \A m \in (n + 1)..Len(items) : items[m].id # arg
       ELSE 0

\* C11: an input variable whose configured input has a type other than
\* 'promptString', 'pickString' and 'command' makes the call throw the
\* VariableError of kind Input about the unknown type: no prompt is queued
\* for it and no later variable is begun.
C11_UnknownInputType ==
    \A c \in Calls : \A j \in 1..Len(call[c].trace) :
        (/\ call[c].trace[j].ev = "resolveInputs"
         /\ ~NoInputsList(c)
         /\ ConfiguredAs(c, j) # 0
         /\ SelectedValue(c).inputs.items[ConfiguredAs(c, j)].type
               \notin {"promptString", "pickString", "command"})
        => /\ call[c].pc = "done"
           /\ call[c].ret = ThrowOf(VariableKind_Input, "inputVariable.unknownType")
           /\ <<c, call[c].trace[j].i>> \notin SeqRange(queuedOrder)
           /\ \A k \in (j + 1)..Len(call[c].trace) :
                 call[c].trace[k].ev \notin {"queue", "start", "variable"}

\* The input 'x' of type 'other' was looked up after an earlier variable of
\* the same call had been prompted for and answered.
C11_Witness ==
    \E c \in Calls :
        /\ call[c].idx = 2
        /\ call[c].variables[2].arg = "x"
        /\ call[c].ret = ThrowOf(VariableKind_Input, "inputVariable.unknownType")
        /\ <<c, 1>> \in SeqRange(queuedOrder)

\* C12: a start() called on the stopped server makes it Starting, and at
\* every step a promise returned by start() is pending exactly when the
\* server is starting: a promise resolves when the server leaves the
\* Starting state, and the state it resolves with is never of kind Starting.
C12_StartResolvesOutOfStarting ==
    [][\A p \in Starts :
          /\ (startPromises[p].phase = "idle" /\ startPromises'[p].phase # "idle"
              /\ mcpState = Kind_Stopped)
             => (mcpState' = Kind_Starting /\ startPromises'[p].phase = "pending")
          /\ startPromises'[p].phase = "pending" => mcpState' = Kind_Starting
          /\ (startPromises[p].phase = "pending" /\ mcpState' # Kind_Starting)
             => (startPromises'[p].phase = "resolved"
                 /\ startPromises'[p].state = mcpState')
          /\ startPromises'[p].phase = "resolved"
             => startPromises'[p].state # Kind_Starting]_vars

\* A start() called on the stopped server has resolved with Running while a
\* later start() on the failed server is pending.
C12_Witness ==
    \E p, q \in Starts :
        /\ startPromises[p] = [phase |-> "resolved", from |-> Kind_Stopped, state |-> Kind_Running]
        /\ startPromises[q].phase = "pending"
        /\ startPromises[q].from = Kind_Error

\* The positions of the trace of call c where resolveAnyAsync is called on
\* `what`: "config" for the first, non-interactive pass, "variables" for the
\* final pass with the resolved variables.
ResolveAnyAt(c, what) ==
    {j \in 1..Len(call[c].trace) :
        call[c].trace[j].ev = "resolveAnyAsync" /\ call[c].trace[j].what = what}

\* C14: a call of resolveWithInteractionReplace begins with the
\* non-interactive resolveAnyAsync on the config, then resolves the input
\* and command variables, and only then runs the final resolveAnyAsync with
\* the resolved variables; the final pass runs exactly when the interaction
\* returned a map that is not empty, and with an empty map the call returns
\* the config of the first pass.
C14_ThreePhasesInOrder ==
    \A c \in Calls :
        LET s == call[c]
            first == ResolveAnyAt(c, "config")
            final == ResolveAnyAt(c, "variables")
        IN /\ s.pc # "idle" => first = {1}
           /\ \A j \in final :
                 /\ j = Len(s.trace)
                 /\ s.interaction = "map"
                 /\ Len(s.resolvedVariables) > 0
           /\ s.pc = "final" => final # {}
           /\ (s.pc = "done" /\ s.interaction = "map")
              => IF Len(s.resolvedVariables) > 0
                 THEN s.ret.kind = "resolved" /\ final # {}
                 ELSE s.ret.kind = "config" /\ final = {}
           /\ s.ret.kind \in {"resolved", "config"} => s.interaction = "map"

\* A call has run the three phases over two variables and has returned the
\* config of the final pass.
C14_Witness ==
    \E c \in Calls :
        /\ call[c].pc = "done"
        /\ call[c].ret.kind = "resolved"
        /\ Len(call[c].resolvedVariables) = 2
        /\ ResolveAnyAt(c, "config") = {1}
        /\ ResolveAnyAt(c, "variables") = {Len(call[c].trace)}
        /\ \E j \in 2..(Len(call[c].trace) - 1) : call[c].trace[j].ev = "result"

\* The name of the file at a path, written out with its dots.
RECURSIVE Dotted(_)
Dotted(name) ==
    IF Len(name) = 1 THEN name[1] ELSE name[1] \o "." \o Dotted(Tail(name))
FileName(file) == Dotted(file[Len(file)])
\* The names that end in '.prompt.md' among the names of Files.
PromptFileNames == {"my.prompt.md", "specific.prompt.md"}

\* C13: findAllMatchingPromptFiles returns only files whose name ends in
\* '.prompt.md': readme.md is never returned, whatever the configured glob
\* patterns match.
C13_OnlyPromptFiles ==
    \A file \in matching.files :
        /\ FileName(file) \in PromptFileNames
        /\ FileName(file) # "readme.md"

\* The pattern '**/*.md' is enabled, it matches the readme.md that exists,
\* and the search has returned the prompt file beside it.
C13_Witness ==
    /\ Location(Relative(<< <<"**">>, <<"*", "md">> >>), TRUE) \in locations
    /\ \E file \in filesystem :
          /\ FileName(file) = "readme.md"
          /\ GlobMatches(Under(WorkspaceFolder, << <<"**">>, <<"*", "md">> >>), file)
    /\ matching.done
    /\ \E file \in matching.files : FileName(file) = "my.prompt.md"
====
